---------------------------- MODULE Spec2Model ----------------------------
(***************************************************************************)
(* Model of app.py: the "Fetch Details" handler that chains the KEGG       *)
(* lookups (identifier conversion, pathways, diseases, disease details,    *)
(* pathway image) and the five request/parse functions it calls.           *)
(*                                                                         *)
(* Text is modelled as a sequence of one-character strings, so that        *)
(* strip, split, replace and startswith are computed as Python computes    *)
(* them.  The KEGG server is the function upstream from lookup URL to      *)
(* response; the answer for a URL is chosen when the URL is first          *)
(* requested and never changes afterwards.                                 *)
(***************************************************************************)
EXTENDS Integers, Sequences, FiniteSets, TLC

VARIABLES
    upstream,       \* URL -> response of the KEGG server (Unasked before the first request)
    pc,             \* position of the script: idle, pathways, diseases, image, details, finish, done
    uniprot_id,     \* value of the text input when the button was clicked
    kegg_gene_id,   \* result of convert_uniprot_to_kegg_gene
    pathways,       \* result of get_kegg_pathways
    pi,             \* position of the loop "for pathway_id in pathways"
    diseases,       \* result of get_kegg_diseases for the current pathway
    di,             \* position of the loop "for disease_id in diseases"
    disease_data,   \* rows [disease_id, name, description]
    images,         \* pathway ids whose image and download button were rendered
    outcome,        \* the notice the run ended with
    log,            \* lookups issued in the current run, in order
    prev,           \* text input -> what the last completed run with it produced
    runs            \* number of button clicks so far

vars == <<upstream, pc, uniprot_id, kegg_gene_id, pathways, pi, diseases, di,
          disease_data, images, outcome, log, prev, runs>>

-----------------------------------------------------------------------------
(* Bounds *)

MaxRuns == 2        \* button clicks per behaviour
MaxLines == 3       \* lines of a disease record drawn for get_disease_details

-----------------------------------------------------------------------------
(* Python str operations on sequences of characters *)

Whitespace == {" ", "\t", "\n", "\r"}

RECURSIVE lstrip(_)
lstrip(s) ==
    IF s # <<>> /\ Head(s) \in Whitespace THEN lstrip(Tail(s)) ELSE s

RECURSIVE rstrip(_)
rstrip(s) ==
    IF s # <<>> /\ s[Len(s)] \in Whitespace
    THEN rstrip(SubSeq(s, 1, Len(s) - 1))
    ELSE s

strip(s) == rstrip(lstrip(s))

startswith(s, prefix) ==
    /\ Len(s) >= Len(prefix)
    /\ SubSeq(s, 1, Len(prefix)) = prefix

\* index of the first occurrence of sep in s, 0 when there is none
find(s, sep) ==
    LET hits == {k \in 1..(Len(s) - Len(sep) + 1) :
                    SubSeq(s, k, k + Len(sep) - 1) = sep}
    IN  IF hits = {} THEN 0
        ELSE CHOOSE k \in hits : \A h \in hits : k <= h

\* s.split(sep), sep non-empty
RECURSIVE split(_, _)
split(s, sep) ==
    LET k == find(s, sep)
    IN  IF k = 0 THEN <<s>>
        ELSE <<SubSeq(s, 1, k - 1)>> \o split(SubSeq(s, k + Len(sep), Len(s)), sep)

\* s.replace(old, new), old non-empty
RECURSIVE replace(_, _, _)
replace(s, old, new) ==
    LET k == find(s, old)
    IN  IF k = 0 THEN s
        ELSE SubSeq(s, 1, k - 1) \o new
               \o replace(SubSeq(s, k + Len(old), Len(s)), old, new)

\* "\n".join(ls)
RECURSIVE join(_, _)
join(ls, sep) ==
    IF ls = <<>> THEN <<>>
    ELSE IF Len(ls) = 1 THEN ls[1]
    ELSE ls[1] \o sep \o join(Tail(ls), sep)

TAB == <<"\t">>
NL == <<"\n">>
PathPrefix == <<"p", "a", "t", "h", ":">>
DsPrefix == <<"d", "s", ":">>
NameTag == <<"N", "A", "M", "E">>
DescriptionTag == <<"D", "E", "S", "C", "R", "I", "P", "T", "I", "O", "N">>
FieldSeparator == <<" ", " ", " ", " ", " ", " ", " ", " ">>
NoDescription == <<"No description available">>

-----------------------------------------------------------------------------
(* Values returned by the request/parse functions *)

None == [tag |-> "None"]
IndexError == [tag |-> "IndexError"]
Str(s) == [tag |-> "str", val |-> s]
List(l) == [tag |-> "list", val |-> l]
Bytes(b) == [tag |-> "bytes", val |-> b]

\* Python truthiness of a returned value
Truthy(v) == v.tag \in {"str", "list", "bytes"} /\ v.val # <<>>

-----------------------------------------------------------------------------
(* The KEGG server: lookup URLs and the responses drawn for them *)

P1 == <<"P", "1">>
P2 == <<"P", "2">>
G == <<"g">>
A == <<"A">>
B == <<"B">>
H1 == <<"H", "1">>
H2 == <<"H", "2">>

AccessionIDs == {P1, P2}
GeneIDs == {G}
PathwayIDs == {A, B}
DiseaseIDs == {H1, H2}

\* the value of the text input: empty, or an accession
TextInputs == {<<>>} \cup AccessionIDs

conv_url(uid) == [endpoint |-> "conv/genes/uniprot", id |-> uid]
pathway_url(gid) == [endpoint |-> "link/pathway", id |-> gid]
disease_url(pid) == [endpoint |-> "link/disease/path", id |-> pid]
details_url(did) == [endpoint |-> "get/ds", id |-> did]
image_url(pid) == [endpoint |-> "get/image", id |-> pid]

URLs ==
    {conv_url(x) : x \in AccessionIDs} \cup {pathway_url(x) : x \in GeneIDs}
        \cup {disease_url(x) : x \in PathwayIDs}
        \cup {details_url(x) : x \in DiseaseIDs}
        \cup {image_url(x) : x \in PathwayIDs}

Response(code, body) == [status_code |-> code, body |-> body]
Unasked == [status_code |-> 0, body |-> <<>>]

ConvLine == <<"u">> \o TAB \o G \o NL
PathwayLine(p) == G \o TAB \o PathPrefix \o p
DiseaseLine(d) == A \o TAB \o DsPrefix \o d
NameLine(t) == NameTag \o FieldSeparator \o t
DescriptionLine(t) == DescriptionTag \o <<" ">> \o t

ConvResponses ==
    {Response(404, ConvLine), Response(200, <<>>), Response(200, <<" ", "\n">>),
     Response(200, ConvLine), Response(200, <<"u">> \o TAB \o NL),
     Response(200, <<"u">>)}

PathwayResponses ==
    {Response(404, PathwayLine(A) \o NL), Response(200, <<>>), Response(200, NL),
     Response(200, PathwayLine(A) \o NL),
     Response(200, PathwayLine(A) \o NL \o PathwayLine(B) \o NL),
     Response(200, PathwayLine(A) \o NL \o PathwayLine(A) \o NL),
     Response(200, G \o NL)}

DiseaseResponses ==
    {Response(404, DiseaseLine(H1) \o NL), Response(200, <<>>),
     Response(200, DiseaseLine(H1) \o NL),
     Response(200, DiseaseLine(H2) \o NL \o NL \o DiseaseLine(H1) \o NL),
     Response(200, A \o NL)}

DetailsText == NameLine(<<"x">>) \o NL \o DescriptionLine(<<"y">>) \o NL

DetailsResponses ==
    {Response(404, DetailsText), Response(200, DetailsText), Response(200, <<>>)}

PngBytes == <<"PNG">>       \* the bytes of a well-formed PNG image
JunkBytes == <<"JUNK">>     \* bytes that are no image

ImageResponses ==
    {Response(404, PngBytes), Response(200, PngBytes), Response(200, JunkBytes),
     Response(200, <<>>)}

Options(url) ==
    CASE url.endpoint = "conv/genes/uniprot" -> ConvResponses
      [] url.endpoint = "link/pathway" -> PathwayResponses
      [] url.endpoint = "link/disease/path" -> DiseaseResponses
      [] url.endpoint = "get/ds" -> DetailsResponses
      [] url.endpoint = "get/image" -> ImageResponses

\* requests.get(url): the server's answer, fixed from the first request on
requests_get(url) ==
    IF upstream[url] = Unasked THEN Options(url) ELSE {upstream[url]}

-----------------------------------------------------------------------------
(* The request/parse functions, applied to the response of their lookup *)

\* the conversion with the status of the response left unchecked
convert_uniprot_to_kegg_gene_any_status(response) ==
    IF strip(response.body) = <<>>
    THEN None
    ELSE LET fields == split(response.body, TAB)
         IN  IF Len(fields) < 2 THEN IndexError ELSE Str(strip(fields[2]))

convert_uniprot_to_kegg_gene(response) ==
    IF response.status_code # 200 \/ strip(response.body) = <<>>
    THEN None
    ELSE LET fields == split(response.body, TAB)
         IN  IF Len(fields) < 2 THEN IndexError ELSE Str(strip(fields[2]))

\* line.split("\t")[1].replace(prefix, "") for each line; IndexError when a line
\* has no second field
RECURSIVE second_fields(_, _)
second_fields(lines, prefix) ==
    IF lines = <<>> THEN List(<<>>)
    ELSE LET fields == split(Head(lines), TAB)
             rest == second_fields(Tail(lines), prefix)
         IN  IF Len(fields) < 2 \/ rest = IndexError THEN IndexError
             ELSE List(<<replace(fields[2], prefix, <<>>)>> \o rest.val)

\* the pathway enumeration with the status of the response left unchecked
get_kegg_pathways_any_status(response) ==
    IF strip(response.body) = <<>>
    THEN List(<<>>)
    ELSE second_fields(split(strip(response.body), NL), PathPrefix)

get_kegg_pathways(response) ==
    IF response.status_code # 200 \/ strip(response.body) = <<>>
    THEN List(<<>>)
    ELSE second_fields(split(strip(response.body), NL), PathPrefix)

get_kegg_diseases(response) ==
    IF response.status_code # 200 \/ strip(response.body) = <<>>
    THEN List(<<>>)
    ELSE LET data == split(strip(response.body), NL)
         IN  second_fields(SelectSeq(data, LAMBDA line : strip(line) # <<>>),
                           DsPrefix)

\* line.split("        ")[-1]
field_text(line) ==
    LET parts == split(line, FieldSeparator) IN parts[Len(parts)]

\* the loop over the lines without the break at the DESCRIPTION line
RECURSIVE scan_lines_no_break(_, _, _, _)
scan_lines_no_break(lines, k, name, description) ==
    IF k > Len(lines) THEN <<name, description>>
    ELSE LET line == lines[k]
         IN  scan_lines_no_break(
                 lines, k + 1,
                 IF startswith(line, NameTag) THEN field_text(line) ELSE name,
                 IF startswith(line, DescriptionTag) THEN field_text(line)
                 ELSE description)

\* the loop "for line in lines" from line k on, with the values name and
\* description have so far
RECURSIVE scan_lines(_, _, _, _)
scan_lines(lines, k, name, description) ==
    IF k > Len(lines) THEN <<name, description>>
    ELSE LET line == lines[k]
             name1 == IF startswith(line, NameTag) THEN field_text(line) ELSE name
         IN  IF startswith(line, DescriptionTag)
             THEN <<name1, field_text(line)>>
             ELSE scan_lines(lines, k + 1, name1, description)

\* the details with an empty name as the default of a failed lookup
get_disease_details_blank_name(disease_id, response) ==
    IF response.status_code = 200
    THEN scan_lines(split(response.body, NL), 1, <<>>, <<>>)
    ELSE <<<<>>, NoDescription>>

get_disease_details(disease_id, response) ==
    IF response.status_code = 200
    THEN scan_lines(split(response.body, NL), 1, <<>>, <<>>)
    ELSE <<disease_id, NoDescription>>

download_kegg_pathway_image(response) ==
    IF response.status_code = 200 THEN Bytes(response.body) ELSE None

\* Image.open(BytesIO(image_content)) returns an image, or raises on bytes that
\* are no image
Image_open(image_content) == image_content.val = PngBytes

-----------------------------------------------------------------------------
(* The script *)

Unbound == [tag |-> "unbound"]
NoResult == [tag |-> "none"]

\* what a completed run shows: the notice, the gene id, the images, the table
Result ==
    [tag |-> "result", outcome |-> outcome, kegg_gene_id |-> kegg_gene_id,
     images |-> images, table |-> disease_data]

Init ==
    /\ upstream = [u \in URLs |-> Unasked]
    /\ pc = "idle"
    /\ uniprot_id = <<>>
    /\ kegg_gene_id = Unbound
    /\ pathways = Unbound
    /\ pi = 0
    /\ diseases = Unbound
    /\ di = 0
    /\ disease_data = <<>>
    /\ images = <<>>
    /\ outcome = "none"
    /\ log = <<>>
    /\ prev = [text \in TextInputs |-> NoResult]
    /\ runs = 0

\* a lookup of url answered by response
Lookup(url, response) ==
    /\ response \in requests_get(url)
    /\ upstream' = [upstream EXCEPT ![url] = response]
    /\ log' = Append(log, url)

\* an exception nobody catches ends the script run
Raise ==
    /\ pc' = "done"
    /\ outcome' = "fault"

\* the table of the previous run with the same input kept instead of a new one
NewDiseaseDataKept ==
    IF prev[uniprot_id] # NoResult THEN prev[uniprot_id].table ELSE <<>>

\* "disease_data = []"
NewDiseaseData == <<>>

\* the image downloaded for every pathway
ShouldFetchImageAlways(d) == TRUE

\* the image downloaded for the pathways without diseases only
ShouldFetchImageInverted(d) == ~Truthy(d)

\* "if diseases:" guarding the image download
ShouldFetchImage(d) == Truthy(d)

\* a row appended only when its disease is not in the table yet
append_row_dedup(data, row) ==
    IF \E k \in 1..Len(data) : data[k][1] = row[1] THEN data ELSE Append(data, row)

\* "disease_data.append([disease_id, name, description])"
append_row(data, row) == Append(data, row)

\* the loop over the pathways left after the current pathway
NextPathwayBreak == pi' = pi /\ pc' = "finish"

\* the next iteration of "for pathway_id in pathways", or the end of the loop
NextPathway ==
    IF pi < Len(pathways.val)
    THEN pi' = pi + 1 /\ pc' = "diseases"
    ELSE pi' = pi /\ pc' = "finish"

\* "for disease_id in diseases": its first iteration, or none
EnterDiseaseLoop(d) ==
    IF d.val # <<>>
    THEN di' = 1 /\ pc' = "details" /\ pi' = pi
    ELSE di' = di /\ NextPathway

\* The button is clicked with text in the input: the script runs afresh, up to
\* the identifier conversion and the branch on its result.
FetchDetails(text) ==
    /\ pc \in {"idle", "done"}
    /\ runs < MaxRuns
    /\ runs' = runs + 1
    /\ prev' = IF pc = "done" THEN [prev EXCEPT ![uniprot_id] = Result] ELSE prev
    /\ uniprot_id' = text
    /\ pathways' = Unbound
    /\ diseases' = Unbound
    /\ pi' = 0
    /\ di' = 0
    /\ disease_data' = <<>>
    /\ images' = <<>>
    /\ IF text = <<>>
       THEN /\ kegg_gene_id' = Unbound
            /\ outcome' = "no input"
            /\ pc' = "done"
            /\ log' = <<>>
            /\ UNCHANGED upstream
       ELSE \E response \in requests_get(conv_url(text)) :
              LET gene == convert_uniprot_to_kegg_gene(response)
              IN  /\ upstream' = [upstream EXCEPT ![conv_url(text)] = response]
                  /\ log' = <<conv_url(text)>>
                  /\ IF gene = IndexError
                     THEN kegg_gene_id' = Unbound /\ Raise
                     ELSE /\ kegg_gene_id' = gene
                          /\ IF Truthy(gene)
                             THEN pc' = "pathways" /\ outcome' = "running"
                             ELSE pc' = "done" /\ outcome' = "conversion failed"

\* "pathways = get_kegg_pathways(kegg_gene_id)" and the branch on its result
GetPathways ==
    /\ pc = "pathways"
    /\ \E response \in requests_get(pathway_url(kegg_gene_id.val)) :
         LET found == get_kegg_pathways(response)
         IN  /\ Lookup(pathway_url(kegg_gene_id.val), response)
             /\ IF found = IndexError
                THEN Raise /\ UNCHANGED <<pathways, pi, disease_data>>
                ELSE /\ pathways' = found
                     /\ IF Truthy(found)
                        THEN /\ disease_data' = NewDiseaseData
                             /\ pi' = 1
                             /\ pc' = "diseases"
                             /\ UNCHANGED outcome
                        ELSE /\ pc' = "done"
                             /\ outcome' = "no pathways found"
                             /\ UNCHANGED <<pi, disease_data>>
    /\ UNCHANGED <<uniprot_id, kegg_gene_id, diseases, di, images, prev, runs>>

\* "diseases = get_kegg_diseases(pathway_id)" for the current pathway
GetDiseases ==
    /\ pc = "diseases"
    /\ \E response \in requests_get(disease_url(pathways.val[pi])) :
         LET found == get_kegg_diseases(response)
         IN  /\ Lookup(disease_url(pathways.val[pi]), response)
             /\ IF found = IndexError
                THEN Raise /\ UNCHANGED <<diseases, pi, di>>
                ELSE /\ diseases' = found
                     /\ UNCHANGED outcome
                     /\ IF ShouldFetchImage(found)
                        THEN pc' = "image" /\ UNCHANGED <<pi, di>>
                        ELSE EnterDiseaseLoop(found)
    /\ UNCHANGED <<uniprot_id, kegg_gene_id, pathways, disease_data, images,
                   prev, runs>>

\* the image step going on to the next pathway when there is no image content
GetImageSkipOnFailure ==
    /\ pc = "image"
    /\ \E response \in requests_get(image_url(pathways.val[pi])) :
         LET image_content == download_kegg_pathway_image(response)
         IN  /\ Lookup(image_url(pathways.val[pi]), response)
             /\ IF Truthy(image_content) /\ ~Image_open(image_content)
                THEN Raise /\ UNCHANGED <<images, pi, di>>
                ELSE /\ UNCHANGED outcome
                     /\ IF Truthy(image_content)
                        THEN /\ images' = Append(images, pathways.val[pi])
                             /\ EnterDiseaseLoop(diseases)
                        ELSE /\ images' = images
                             /\ di' = di
                             /\ NextPathway
    /\ UNCHANGED <<uniprot_id, kegg_gene_id, pathways, diseases, disease_data,
                   prev, runs>>

\* "image_content = download_kegg_pathway_image(pathway_id)", and the image and
\* its download button when there is content
GetImage ==
    /\ pc = "image"
    /\ \E response \in requests_get(image_url(pathways.val[pi])) :
         LET image_content == download_kegg_pathway_image(response)
         IN  /\ Lookup(image_url(pathways.val[pi]), response)
             /\ IF Truthy(image_content) /\ ~Image_open(image_content)
                THEN Raise /\ UNCHANGED <<images, pi, di>>
                ELSE /\ images' = IF Truthy(image_content)
                                  THEN Append(images, pathways.val[pi])
                                  ELSE images
                     /\ UNCHANGED outcome
                     /\ EnterDiseaseLoop(diseases)
    /\ UNCHANGED <<uniprot_id, kegg_gene_id, pathways, diseases, disease_data,
                   prev, runs>>

\* one iteration of "for disease_id in diseases"
GetDetails ==
    /\ pc = "details"
    /\ \E response \in requests_get(details_url(diseases.val[di])) :
         LET disease_id == diseases.val[di]
             details == get_disease_details(disease_id, response)
         IN  /\ Lookup(details_url(disease_id), response)
             /\ disease_data' =
                  append_row(disease_data, <<disease_id, details[1], details[2]>>)
    /\ IF di < Len(diseases.val)
       THEN di' = di + 1 /\ UNCHANGED <<pc, pi>>
       ELSE di' = di /\ NextPathway
    /\ UNCHANGED <<uniprot_id, kegg_gene_id, pathways, diseases, images, outcome,
                   prev, runs>>

\* "if disease_data:" after the loop: the table, or the notice that there is none
Finish ==
    /\ pc = "finish"
    /\ pc' = "done"
    /\ outcome' = IF disease_data # <<>> THEN "success" ELSE "no diseases found"
    /\ UNCHANGED <<upstream, uniprot_id, kegg_gene_id, pathways, pi, diseases, di,
                   disease_data, images, log, prev, runs>>

Next ==
    \/ \E text \in TextInputs : FetchDetails(text)
    \/ GetPathways
    \/ GetDiseases
    \/ GetImage
    \/ GetDetails
    \/ Finish

Spec == Init /\ [][Next]_vars

-----------------------------------------------------------------------------
(* Vocabulary of the properties *)

Range(f) == {f[k] : k \in 1..Len(f)}

\* positions of the log holding a lookup of the endpoint
LookupsOf(endpoint) == {k \in 1..Len(log) : log[k].endpoint = endpoint}

\* a response with a non-success status, or with an empty or whitespace-only body
NothingFound(response) ==
    \/ response.status_code # 200
    \/ \A k \in 1..Len(response.body) : response.body[k] \in Whitespace

\* the disease list of a pathway, as its lookup has been answered
DiseasesOf(pid) == get_kegg_diseases(upstream[disease_url(pid)])

\* the run has entered the loop over a non-empty pathway list and has not raised
InLoop == pc \in {"diseases", "image", "details", "finish"}
LoopDone == pc = "finish" \/ (pc = "done" /\ outcome \in {"success", "no diseases found"})

RECURSIVE Flatten(_)
Flatten(ls) == IF ls = <<>> THEN <<>> ELSE Head(ls) \o Flatten(Tail(ls))

\* column c of the table
Column(c) == [k \in 1..Len(disease_data) |-> disease_data[k][c]]

-----------------------------------------------------------------------------
(* C1: whenever the identifier-conversion lookup of a run answers with a     *)
(* non-success status or an empty or whitespace-only body, the resolver      *)
(* returns None, the run has ended with "conversion failed", and the         *)
(* conversion lookup is the only lookup the run has issued.                  *)
C1_ConversionFailed ==
    (pc # "idle" /\ uniprot_id # <<>>
        /\ NothingFound(upstream[conv_url(uniprot_id)]))
    => /\ kegg_gene_id = None
       /\ pc = "done"
       /\ outcome = "conversion failed"
       /\ log = <<conv_url(uniprot_id)>>

C1_Witness ==
    /\ pc = "done"
    /\ uniprot_id = P1
    /\ upstream[conv_url(P1)] = Response(404, ConvLine)
    /\ outcome = "conversion failed"
    /\ runs = 1

(* C2: whenever the gene id is resolved and the pathway lookup of the run    *)
(* answers with a failure or an empty body, get_kegg_pathways returned the   *)
(* empty list (not None), the run has ended with "no pathways found", and    *)
(* the run issued the conversion and the pathway lookup and nothing else.    *)
C2_NoPathwaysFound ==
    (Truthy(kegg_gene_id) /\ LookupsOf("link/pathway") # {}
        /\ NothingFound(upstream[pathway_url(kegg_gene_id.val)]))
    => /\ pathways = List(<<>>)
       /\ pc = "done"
       /\ outcome = "no pathways found"
       /\ log = <<conv_url(uniprot_id), pathway_url(kegg_gene_id.val)>>

C2_Witness ==
    /\ pc = "done"
    /\ kegg_gene_id = Str(G)
    /\ upstream[pathway_url(G)] = Response(404, PathwayLine(A) \o NL)
    /\ outcome = "no pathways found"

(* C3: while every pathway enumerated so far in a run over a non-empty       *)
(* pathway list has an empty disease list, the table and the image set are   *)
(* empty and no image or detail lookup has been issued; the loop goes on to  *)
(* the next pathway, and once it is over every pathway entry has been        *)
(* enumerated and the run ends with "no diseases found".                     *)
C3_NoDiseasesFound ==
    ((InLoop \/ pc = "done") /\ Truthy(pathways) /\ outcome # "fault"
        /\ \A k \in LookupsOf("link/disease/path") :
              DiseasesOf(log[k].id) = List(<<>>))
    => /\ disease_data = <<>>
       /\ images = <<>>
       /\ LookupsOf("get/image") = {}
       /\ LookupsOf("get/ds") = {}
       /\ pc \in {"diseases", "finish", "done"}
       /\ pc = "diseases" => Cardinality(LookupsOf("link/disease/path")) = pi - 1
       /\ pc \in {"finish", "done"}
            => Cardinality(LookupsOf("link/disease/path")) = Len(pathways.val)
       /\ pc = "done" => outcome = "no diseases found"

C3_Witness ==
    /\ pc = "done"
    /\ outcome = "no diseases found"
    /\ Len(pathways.val) = 2
    /\ pathways.val[1] # pathways.val[2]
    /\ upstream[disease_url(A)].status_code # upstream[disease_url(B)].status_code

(* C4: when the loop over the pathways is over, the DiseaseID column of the  *)
(* table is the concatenation, in pathway order, of the disease lists of     *)
(* the pathway entries, each in its own order, duplicates included.          *)
C4_TableIsConcatenation ==
    (LoopDone /\ Truthy(pathways))
    => Column(1) =
         Flatten([k \in 1..Len(pathways.val) |-> DiseasesOf(pathways.val[k]).val])

C4_Witness ==
    /\ pc = "done"
    /\ outcome = "success"
    /\ Len(pathways.val) = 2
    /\ DiseasesOf(pathways.val[1]).val = <<H1>>
    /\ DiseasesOf(pathways.val[2]).val = <<H2, H1>>
    /\ Column(1) = <<H1, H2, H1>>

(* C5: a detail lookup answered with a non-success status appends the row   *)
(* <<DiseaseID, DiseaseID, "No description available">> to the table, keeps  *)
(* the rows already there in place, and does not end the run.                *)
C5_DetailDefault ==
    [][(pc = "details"
          /\ upstream'[details_url(diseases.val[di])].status_code # 200)
       => /\ disease_data' =
               Append(disease_data,
                      <<diseases.val[di], diseases.val[di], NoDescription>>)
          /\ outcome' = outcome
          /\ pc' \in {"details", "diseases", "finish"}]_vars

C5_Witness ==
    /\ pc = "done"
    /\ outcome = "success"
    /\ disease_data = <<<<H2, <<"x">>, DescriptionLine(<<"y">>)>>,
                        <<H1, H1, NoDescription>>>>

\* the table as the pathway, disease and detail answers alone determine it
DetailsOf(did) == get_disease_details(did, upstream[details_url(did)])

RowsOf(pid) ==
    LET ds == DiseasesOf(pid).val
    IN  [k \in 1..Len(ds) |-> <<ds[k], DetailsOf(ds[k])[1], DetailsOf(ds[k])[2]>>]

ExpectedTable == Flatten([k \in 1..Len(pathways.val) |-> RowsOf(pathways.val[k])])

ImageFailureSkipped ==
    (pc = "image" /\ upstream'[image_url(pathways.val[pi])].status_code # 200)
    => /\ images' = images
       /\ disease_data' = disease_data
       /\ outcome' = outcome
       /\ pathways' = pathways
       /\ diseases' = diseases
       /\ pi' = pi
       /\ pc' = "details"
       /\ di' = 1

TableIgnoresImages ==
    (LoopDone /\ Truthy(pathways))
    => /\ disease_data = ExpectedTable
       /\ pc = "done"
            => outcome = IF ExpectedTable # <<>> THEN "success"
                         ELSE "no diseases found"
       /\ \A p \in Range(images) : upstream[image_url(p)].status_code = 200

(* C6: an image lookup answered with a non-success status leaves the image  *)
(* set, the table and the notice as they are and goes on to the detail       *)
(* lookups of the same pathway; and when the loop is over, the table and     *)
(* the notice are what the pathway, disease and detail answers alone         *)
(* determine, so they are the same whether an image lookup failed or not,    *)
(* and every pathway with an image had its image lookup succeed.             *)
C6_ImageFailureSkipped == []TableIgnoresImages /\ [][ImageFailureSkipped]_vars

C6_Witness ==
    /\ pc = "done"
    /\ outcome = "success"
    /\ pathways.val = <<A, B>>
    /\ upstream[image_url(A)].status_code # 200
    /\ images = <<B>>
    /\ Len(disease_data) = 3

(* C7: a run that ends with the same text input as an earlier completed run  *)
(* ends with the same notice, the same gene id, the same images and the      *)
(* same table, row for row.                                                  *)
C7_Idempotent ==
    (pc = "done" /\ prev[uniprot_id] # NoResult) => prev[uniprot_id] = Result

C7_Witness ==
    /\ pc = "done"
    /\ prev[uniprot_id] # NoResult
    /\ outcome = "success"
    /\ images # <<>>
    /\ Len(disease_data) >= 2

(* C8: in the log of a run, an image lookup follows the disease lookup of a  *)
(* pathway entry exactly when that entry's disease list is non-empty, every  *)
(* image lookup is the one that directly follows the disease lookup of its   *)
(* pathway entry, each entry is enumerated once, and when the loop is over   *)
(* every pathway with an image has at least one row in the table.            *)
C8_ImageIffDiseases ==
    /\ \A k \in LookupsOf("link/disease/path") :
          IF k < Len(log)
          THEN (log[k + 1] = image_url(log[k].id)) <=> Truthy(DiseasesOf(log[k].id))
          ELSE (pc = "image") <=> Truthy(DiseasesOf(log[k].id))
    /\ \A m \in LookupsOf("get/image") :
          m > 1 /\ log[m - 1] = disease_url(log[m].id)
    /\ InLoop =>
          Cardinality(LookupsOf("link/disease/path")) =
             IF pc = "diseases" THEN pi - 1 ELSE pi
    /\ pc \in {"finish", "done"} =>
          \A p \in Range(images) :
             \E r \in Range(disease_data) : r[1] \in Range(DiseasesOf(p).val)

C8_Witness ==
    /\ pc = "done"
    /\ outcome = "success"
    /\ pathways.val = <<A, B>>
    /\ DiseasesOf(A) = List(<<>>)
    /\ images = <<B>>
    /\ Cardinality(LookupsOf("get/image")) = 1

\* position in the log of the last disease enumeration before position m
LastEnumerationBefore(m) ==
    LET before == {k \in LookupsOf("link/disease/path") : k < m}
    IN  IF before = {} THEN 0
        ELSE CHOOSE k \in before : \A h \in before : h <= k

(* C10, as claimed: no disease detail lookup is issued until the disease     *)
(* enumeration has been performed for every pathway of the pathway list.     *)
C10_DetailsAfterAllPathways ==
    \A m \in LookupsOf("get/ds") :
       Cardinality({k \in LookupsOf("link/disease/path") : k < m})
          = Len(pathways.val)

(* C10, amended: the conversion lookup comes first and the pathway lookup    *)
(* second; every detail lookup comes after the disease enumeration and the   *)
(* image lookup of its own pathway entry and before the enumeration of the   *)
(* next entry, in the order of that entry's disease list; the table is       *)
(* aggregated only when every pathway entry has been enumerated.             *)
C10_DetailsPerPathway ==
    /\ log # <<>> => log[1] = conv_url(uniprot_id)
    /\ Len(log) >= 2 => log[2] = pathway_url(kegg_gene_id.val)
    /\ \A k \in LookupsOf("link/disease/path") :
          /\ k > 2
          /\ log[k].id =
               pathways.val[Cardinality({h \in LookupsOf("link/disease/path") : h <= k})]
    /\ \A m \in LookupsOf("get/ds") :
          LET e == LastEnumerationBefore(m)
          IN  /\ e > 0
              /\ log[e + 1] = image_url(log[e].id)
              /\ m - e - 1 \in 1..Len(DiseasesOf(log[e].id).val)
              /\ log[m].id = DiseasesOf(log[e].id).val[m - e - 1]
    /\ LoopDone =>
          Cardinality(LookupsOf("link/disease/path")) = Len(pathways.val)

C10_Witness ==
    /\ pc = "done"
    /\ outcome = "success"
    /\ \E m \in LookupsOf("get/ds") :
          \E k \in LookupsOf("link/disease/path") : m < k

-----------------------------------------------------------------------------
(* get_disease_details on every record of at most MaxLines lines: the run    *)
(* of P1 has resolved gene g, found pathway A with the one disease H1 and    *)
(* no image, and is about to look the details of H1 up.                      *)

DetailLines ==
    {NameLine(<<"x">>), NameLine(<<"z">>), DescriptionLine(<<"y">>),
     DescriptionTag \o FieldSeparator \o <<"w">>, FieldSeparator \o <<"c">>,
     <<"E">>}

Records == UNION {[1..n -> DetailLines] : n \in 0..MaxLines}

InitDetails ==
    /\ \E record \in Records :
         upstream =
           [u \in URLs |->
              CASE u = conv_url(P1) -> Response(200, ConvLine)
                [] u = pathway_url(G) -> Response(200, PathwayLine(A) \o NL)
                [] u = disease_url(A) -> Response(200, DiseaseLine(H1) \o NL)
                [] u = image_url(A) -> Response(404, <<>>)
                [] u = details_url(H1) -> Response(200, join(record, NL))
                [] OTHER -> Unasked]
    /\ pc = "details"
    /\ uniprot_id = P1
    /\ kegg_gene_id = Str(G)
    /\ pathways = List(<<A>>)
    /\ pi = 1
    /\ diseases = List(<<H1>>)
    /\ di = 1
    /\ disease_data = <<>>
    /\ images = <<>>
    /\ outcome = "running"
    /\ log = <<conv_url(P1), pathway_url(G), disease_url(A), image_url(A)>>
    /\ prev = [text \in TextInputs |-> NoResult]
    /\ runs = 1

NextDetails == GetDetails \/ Finish

SpecDetails == InitDetails /\ [][NextDetails]_vars

\* the lines of the record of H1, and the lines the loop reads: those up to and
\* including the first one that starts with DESCRIPTION
RecordLines == split(upstream[details_url(H1)].body, NL)

Starting(tag) == {k \in 1..Len(RecordLines) : startswith(RecordLines[k], tag)}

Least(S) == IF S = {} THEN 0 ELSE CHOOSE k \in S : \A h \in S : k <= h
Greatest(S) == IF S = {} THEN 0 ELSE CHOOSE k \in S : \A h \in S : h <= k

FirstDescription == Least(Starting(DescriptionTag))

Scanned ==
    IF FirstDescription = 0 THEN 1..Len(RecordLines) ELSE 1..FirstDescription

TextAt(k) == IF k = 0 THEN <<>> ELSE field_text(RecordLines[k])

(* C9, as claimed: on a successful lookup the name is the text of the first  *)
(* line that starts with NAME among the lines read, the description the      *)
(* text of the first line that starts with DESCRIPTION, and a field with no  *)
(* such line is empty.                                                       *)
C9_FirstNameLine ==
    (pc \in {"finish", "done"} /\ upstream[details_url(H1)].status_code = 200)
    => disease_data =
         <<<<H1, TextAt(Least(Starting(NameTag) \cap Scanned)),
             TextAt(FirstDescription)>>>>

(* C9, amended: on a successful lookup the name is the text of the last      *)
(* line that starts with NAME among the lines up to and including the first  *)
(* line that starts with DESCRIPTION (all lines when there is none), the     *)
(* description is the text of that first DESCRIPTION line, and a field with  *)
(* no such line is empty.                                                    *)
C9_LastNameLine ==
    (pc \in {"finish", "done"} /\ upstream[details_url(H1)].status_code = 200)
    => disease_data =
         <<<<H1, TextAt(Greatest(Starting(NameTag) \cap Scanned)),
             TextAt(FirstDescription)>>>>

C9_Witness ==
    /\ pc = "done"
    /\ RecordLines = <<NameLine(<<"x">>), NameLine(<<"z">>),
                       DescriptionTag \o FieldSeparator \o <<"w">>>>
    /\ disease_data = <<<<H1, <<"z">>, <<"w">>>>>>

=============================================================================
